---- MODULE Spec2Model ----
(***************************************************************************)
(* Model of the SecondEye request orchestrator                             *)
(* (agents/app/agents/orchestrator.py), the frame search of                *)
(* agent2_vlm_direct.py, the navigation planner of agent3_navigation.py    *)
(* and the speech synthesis guard of audio/tts.py.                         *)
(*                                                                         *)
(* Python values are tagged records: Str, Bool, Num, Null, List, Obj.      *)
(* Texts are TLA+ strings and are inspected character by character, so     *)
(* that strip(), lower(), substring tests and JSON decoding are computed   *)
(* as the Python code computes them.                                       *)
(***************************************************************************)
EXTENDS Integers, Sequences, FiniteSets, TLC

-----------------------------------------------------------------------------
(* Python values                                                           *)

Str(s) == [t |-> "str", s |-> s]
Bool(b) == [t |-> "bool", b |-> b]
Num(n) == [t |-> "num", n |-> n]
Null == [t |-> "null"]
List(items) == [t |-> "list", items |-> items]
Obj(d) == [t |-> "obj", d |-> d]

\* Python truth value of a value (bool(v)).
Truthy(v) ==
  CASE v.t = "str" -> v.s # ""
    [] v.t = "bool" -> v.b
    [] v.t = "num" -> v.n # 0
    [] v.t = "null" -> FALSE
    [] v.t = "list" -> v.items # <<>>
    [] v.t = "obj" -> DOMAIN v.d # {}

\* dict.get(key, default)
DictGet(o, key, default) == IF key \in DOMAIN o.d THEN o.d[key] ELSE default

\* dict.setdefault(key, default), as the resulting dictionary
SetDefault(o, key, default) ==
  IF key \in DOMAIN o.d THEN o ELSE Obj(o.d @@ (key :> default))

-----------------------------------------------------------------------------
(* Python string operations                                                *)

Char(s, i) == IF i >= 1 /\ i <= Len(s) THEN SubSeq(s, i, i) ELSE ""

IsSpace(c) == c \in {" ", "\t", "\n", "\r"}

UpperLetters == "ABCDEFGHIJKLMNOPQRSTUVWXYZ"
LowerLetters == "abcdefghijklmnopqrstuvwxyz"

\* str.lower() on one character
LowerChar(c) ==
  IF \E i \in 1..26 : Char(UpperLetters, i) = c
    THEN Char(LowerLetters, CHOOSE i \in 1..26 : Char(UpperLetters, i) = c)
    ELSE c

RECURSIVE Lower(_)
\* str.lower()
Lower(s) ==
  IF s = "" THEN ""
  ELSE LowerChar(Char(s, 1)) \o Lower(SubSeq(s, 2, Len(s)))

\* str.strip()
Strip(s) ==
  LET nonsp == {i \in 1..Len(s) : ~IsSpace(Char(s, i))}
  IN IF nonsp = {} THEN ""
     ELSE SubSeq(s, CHOOSE i \in nonsp : \A j \in nonsp : i <= j,
                    CHOOSE i \in nonsp : \A j \in nonsp : i >= j)

\* Python's  p in s  for strings
Contains(s, p) ==
  \E i \in 1..(Len(s) - Len(p) + 1) : SubSeq(s, i, i + Len(p) - 1) = p

StartsAt(s, p, i) ==
  /\ i >= 1
  /\ i + Len(p) - 1 <= Len(s)
  /\ SubSeq(s, i, i + Len(p) - 1) = p

Digits == "0123456789"
IsDigit(c) == \E i \in 1..10 : Char(Digits, i) = c
DigitVal(c) == (CHOOSE i \in 1..10 : Char(Digits, i) = c) - 1

RECURSIVE NatToStr(_)
NatToStr(n) ==
  IF n < 10 THEN Char(Digits, n + 1)
  ELSE NatToStr(n \div 10) \o Char(Digits, (n % 10) + 1)

\* str(n) / f"{n}" for an int
IntToStr(n) == IF n < 0 THEN "-" \o NatToStr(0 - n) ELSE NatToStr(n)

-----------------------------------------------------------------------------
(* json.loads: a recursive descent decoder for JSON texts without string   *)
(* escapes, fractions and exponents.  A decoding step yields               *)
(* [ok, val, next]; next is the index after the decoded value.             *)

Fail == [ok |-> FALSE, val |-> Null, next |-> 0]
Okay(v, n) == [ok |-> TRUE, val |-> v, next |-> n]

RECURSIVE SkipWs(_, _)
SkipWs(s, i) == IF IsSpace(Char(s, i)) THEN SkipWs(s, i + 1) ELSE i

\* index of the first occurrence of character c at or after i, 0 if none
IndexOf(s, c, i) ==
  LET hits == {j \in i..Len(s) : Char(s, j) = c}
  IN IF hits = {} THEN 0 ELSE CHOOSE j \in hits : \A k \in hits : j <= k

RECURSIVE DigitsEnd(_, _)
\* index after the run of digits starting at i
DigitsEnd(s, i) == IF IsDigit(Char(s, i)) THEN DigitsEnd(s, i + 1) ELSE i

RECURSIVE StrToNat(_)
StrToNat(s) ==
  IF s = "" THEN 0
  ELSE 10 * StrToNat(SubSeq(s, 1, Len(s) - 1)) + DigitVal(Char(s, Len(s)))

ParseString(s, i) ==
  LET j == IndexOf(s, "\"", i + 1)
  IN IF j = 0 \/ Contains(SubSeq(s, i + 1, j - 1), "\\") THEN Fail
     ELSE Okay(Str(SubSeq(s, i + 1, j - 1)), j + 1)

ParseNumber(s, i) ==
  LET neg == Char(s, i) = "-"
      from == IF neg THEN i + 1 ELSE i
      to == DigitsEnd(s, from)
      mag == StrToNat(SubSeq(s, from, to - 1))
  IN IF to = from \/ (Char(s, from) = "0" /\ to > from + 1)
          \/ Char(s, to) \in {".", "e", "E"}
       THEN Fail
       ELSE Okay(Num(IF neg THEN 0 - mag ELSE mag), to)

RECURSIVE ParseValue(_, _), ParseMembers(_, _, _), ParseElements(_, _, _)

ParseValue(s, i0) ==
  LET i == SkipWs(s, i0)
      c == Char(s, i)
  IN CASE c = "\"" -> ParseString(s, i)
       [] c = "{" ->
            IF Char(s, SkipWs(s, i + 1)) = "}"
              THEN Okay(Obj(<<>>), SkipWs(s, i + 1) + 1)
              ELSE ParseMembers(s, i + 1, <<>>)
       [] c = "[" ->
            IF Char(s, SkipWs(s, i + 1)) = "]"
              THEN Okay(List(<<>>), SkipWs(s, i + 1) + 1)
              ELSE ParseElements(s, i + 1, <<>>)
       [] StartsAt(s, "true", i) -> Okay(Bool(TRUE), i + 4)
       [] StartsAt(s, "false", i) -> Okay(Bool(FALSE), i + 5)
       [] StartsAt(s, "null", i) -> Okay(Null, i + 4)
       [] c = "-" \/ IsDigit(c) -> ParseNumber(s, i)
       [] OTHER -> Fail

\* members of an object after "{" or ","; a repeated key keeps the last value
ParseMembers(s, i0, acc) ==
  LET i == SkipWs(s, i0)
      k == IF Char(s, i) = "\"" THEN ParseString(s, i) ELSE Fail
      colon == SkipWs(s, k.next)
      v == IF k.ok /\ Char(s, colon) = ":" THEN ParseValue(s, colon + 1) ELSE Fail
      after == SkipWs(s, v.next)
      acc2 == (k.val.s :> v.val) @@ acc
  IN IF ~v.ok THEN Fail
     ELSE IF Char(s, after) = "," THEN ParseMembers(s, after + 1, acc2)
     ELSE IF Char(s, after) = "}" THEN Okay(Obj(acc2), after + 1)
     ELSE Fail

ParseElements(s, i0, acc) ==
  LET v == ParseValue(s, i0)
      after == SkipWs(s, v.next)
      acc2 == Append(acc, v.val)
  IN IF ~v.ok THEN Fail
     ELSE IF Char(s, after) = "," THEN ParseElements(s, after + 1, acc2)
     ELSE IF Char(s, after) = "]" THEN Okay(List(acc2), after + 1)
     ELSE Fail

\* a decoded value is the document only if nothing but whitespace follows it
WholeDocument(s, v) == IF v.ok /\ SkipWs(s, v.next) = Len(s) + 1 THEN v ELSE Fail

\* json.loads(s): [ok |-> FALSE] stands for json.JSONDecodeError
JsonLoads(s) == WholeDocument(s, ParseValue(s, 1))

-----------------------------------------------------------------------------
(* Bounds and input sets                                                   *)

\* largest number of frames in a request
MaxFrames == 2

\* values of max_search_duration / duration_seconds
Durations == {5, 30}

\* settings.vision_backend_url: "" is "not configured"
BackendUrls == {"", "http://vision"}

\* texts returned by speech-to-text
Transcripts == {"Where is my cup?"}

\* contents returned by the intent model
ClassifierContents ==
  { "{\"keywords\": [\"cup\"], \"intent\": \"find\", \"target_object\": \"cup\", \"enhanced_query\": \"Where is the cup?\"}",
    "{\"intent\": \"find\", \"target_object\": \"Cup\"}",
    "{\"keywords\": [\"scene\"], \"intent\": \"describe\", \"target_object\": \"\", \"enhanced_query\": \"Describe the scene\"}",
    "{\"keywords\": [], \"intent\": \"general\", \"enhanced_query\": \"What is this?\"}",
    "{\"intent\": \"find\"}",
    "{\"intent\": \"navigate\", \"target_object\": \"door\"}",
    "I am not sure what you mean.",
    "[]" }

\* contents returned by the vision model for a describe / general question
VlmContents == {"I see a desk with a cup.", "", "  "}

\* contents returned by the vision model when judging one frame (orchestrated runs)
Judgments ==
  { "{\"found\": true, \"description\": \"To your right, close by\"}",
    "{\"found\": true, \"description\": \"\"}",
    "{\"found\": false, \"description\": \"I don't see it\"}",
    "The cup is in front of you.",
    "I can't see the cup here.",
    "[]" }

\* free-text judgments: subject, verb phrase, object
HeuristicSubjects == {" I "}
HeuristicVerbs ==
  { "see a ", "don't see a ", "do not see a ", "cannot see a ", "can't see a ",
    "see no ", "see a not visible ", "DON'T SEE a " }
HeuristicObjects == {"cup", "Cup here. "}

\* free texts without the target name, or negating another object
HeuristicOthers == {" I see a mug", " I see no mug, only a cup"}

HeuristicTexts ==
  { s \o v \o o : s \in HeuristicSubjects, v \in HeuristicVerbs, o \in HeuristicObjects }
    \cup HeuristicOthers

\* contents judged in the runs of the search alone
WideJudgments ==
  HeuristicTexts \cup
  { "{\"found\": true}",
    "{\"found\": \"no\", \"description\": \"cup\"}",
    "{\"found\": false, \"description\": \"the cup\"}",
    "{\"description\": \"a cup\"}",
    "true" }

\* target names handed to the search
Targets == {"cup", "Cup"}

\* contents returned by the instruction model
InstructionContents == {"Turn right. Walk 2 steps.", ""}

\* bodies of a 200 response of the localization service
LocateBodies ==
  { "{\"target_position\": {\"x\": 1, \"y\": 1, \"z\": 1}, \"camera_position\": {\"x\": 0, \"y\": 0, \"z\": 0}, \"camera_orientation\": {\"yaw\": 0, \"pitch\": 0}}",
    "{\"target_position\": {\"x\": 2, \"y\": 0, \"z\": 3}, \"camera_position\": {\"x\": 0, \"y\": 0, \"z\": 0}}",
    "{\"target_position\": {\"x\": 1, \"y\": 0}, \"camera_position\": {\"x\": 0, \"y\": 0, \"z\": 0}, \"camera_orientation\": {\"yaw\": 0, \"pitch\": 0}}",
    "{}",
    "5",
    "Service Unavailable" }

-----------------------------------------------------------------------------
(* agent2_vlm_direct.py: judging one frame                                 *)

\* variant: the list without "can't see"
NegativeIndicators_NoCant(target_object) ==
  { "don't see", "do not see", "not see", "cannot see",
    "no " \o Lower(target_object), "not visible" }

\* the negative indicators of the free-text fallback, for a target name
NegativeIndicators(target_object) ==
  { "don't see", "do not see", "not see", "cannot see", "can't see",
    "no " \o Lower(target_object), "not visible" }

\* is_negative
IsNegative(response_lower, target_object) ==
  \E neg \in NegativeIndicators(target_object) : Contains(response_lower, neg)

\* the free-text fallback: the frame counts as a match
HeuristicFound(response_text, target_object) ==
  LET response_lower == Lower(response_text)
  IN /\ Contains(response_lower, Lower(target_object))
     /\ ~IsNegative(response_lower, target_object)

\* the try / except of the loop body, on the stripped content and the
\* outcome of json.loads on it
JudgeParsed(response_text, parsed, target_object) ==
     IF parsed.ok
       THEN IF parsed.val.t # "obj"
              THEN [verdict |-> "raise", error |-> "AttributeError", description |-> Null]
            ELSE IF Truthy(DictGet(parsed.val, "found", Bool(FALSE)))
              THEN [verdict |-> "found", error |-> "",
                    description |-> DictGet(parsed.val, "description", Str("Object found."))]
            ELSE [verdict |-> "next", error |-> "", description |-> Null]
       ELSE IF HeuristicFound(response_text, target_object)
              THEN [verdict |-> "found", error |-> "", description |-> Str(response_text)]
              ELSE [verdict |-> "next", error |-> "", description |-> Null]

JudgeStripped(response_text, target_object) ==
  JudgeParsed(response_text, JsonLoads(response_text), target_object)

\* One pass of the loop body on the model's content for a frame:
\* verdict "found" (with the description), "next" (go on with the next
\* frame) or "raise" (an exception leaves the function).
JudgeFrame(content, target_object) == JudgeStripped(Strip(content), target_object)

\* variant: the text does not name the target
NotSeenText_Unnamed(duration_seconds, target_object) ==
  "I've been looking for " \o IntToStr(duration_seconds)
    \o " seconds, but I don't see it yet. Try moving your camera around slowly."

\* the text returned when no frame matched
NotSeenText(duration_seconds, target_object) ==
  "I've been looking for " \o IntToStr(duration_seconds)
    \o " seconds, but I don't see a " \o target_object
    \o " yet. Try moving your camera around slowly."

\* the dictionary returned by search_object_in_frames
SearchResult(found, best_frame_idx, location_description, duration_seconds, target_object) ==
  IF found
    THEN [found |-> TRUE, frame_index |-> best_frame_idx,
          description |-> location_description,
          voice_response |-> location_description]
    ELSE [found |-> FALSE, frame_index |-> -1,
          description |-> Str(NotSeenText(duration_seconds, target_object)),
          voice_response |-> Str(NotSeenText(duration_seconds, target_object))]

-----------------------------------------------------------------------------
(* audio/tts.py                                                            *)

\* the input validation of text_to_speech: "" when the text is accepted,
\* else the exception raised
TtsInputError(text) ==
  IF ~Truthy(text) THEN "ValueError"
  ELSE IF text.t # "str" THEN "AttributeError"
  ELSE IF Strip(text.s) = "" THEN "ValueError"
  ELSE ""

-----------------------------------------------------------------------------
(* orchestrator.py: localization                                           *)

\* the mock positions returned when no backend is configured
MockPositions ==
  Obj([target_position |-> Obj([x |-> Num(2), y |-> Num(0), z |-> Num(3)]),
       camera_position |-> Obj([x |-> Num(0), y |-> Num(0), z |-> Num(0)]),
       camera_orientation |-> Obj([yaw |-> Num(0), pitch |-> Num(0)])])

\* outcomes of the HTTP exchange with a configured backend
LocateOutcomes ==
  { [kind |-> "error", body |-> ""], [kind |-> "status", body |-> ""] }
    \cup { [kind |-> "ok", body |-> b] : b \in LocateBodies }

\* the value call_3d_reconstruction_service returns; Null is None
\* variant: no backend configured counts as unavailable
LocateResult_NoMock(vision_backend_url, outcome) ==
  IF vision_backend_url = "" THEN Null
  ELSE IF outcome.kind = "ok"
    THEN (IF JsonLoads(outcome.body).ok THEN JsonLoads(outcome.body).val ELSE Null)
  ELSE Null

\* variant: a failed call falls back to the mock positions
LocateResult_MockOnFailure(vision_backend_url, outcome) ==
  IF vision_backend_url = "" THEN MockPositions
  ELSE IF outcome.kind = "ok"
    THEN (IF JsonLoads(outcome.body).ok THEN JsonLoads(outcome.body).val ELSE Null)
  ELSE MockPositions

\* response.json(), None when it raises inside the try
ResponseJson(parsed) == IF parsed.ok THEN parsed.val ELSE Null

LocateResult(vision_backend_url, outcome) ==
  IF vision_backend_url = "" THEN MockPositions
  ELSE IF outcome.kind = "ok" THEN ResponseJson(JsonLoads(outcome.body))
  ELSE Null

\* Python's  key in v
PyIn(key, v) ==
  CASE v.t = "obj" -> [ok |-> TRUE, val |-> key \in DOMAIN v.d]
    [] v.t = "list" -> [ok |-> TRUE, val |-> \E i \in 1..Len(v.items) : v.items[i] = Str(key)]
    [] v.t = "str" -> [ok |-> TRUE, val |-> Contains(v.s, key)]
    [] OTHER -> [ok |-> FALSE, val |-> FALSE]

RequiredKeys == <<"target_position", "camera_position", "camera_orientation">>

\* has_valid_format: "yes", "no", or "TypeError" when  in  is applied to a
\* value that is not a container
HasValidFormat(position_data) ==
  IF ~Truthy(position_data) THEN "no"
  ELSE IF ~PyIn(RequiredKeys[1], position_data).ok THEN "TypeError"
  ELSE IF \A i \in 1..3 : PyIn(RequiredKeys[i], position_data).val THEN "yes"
  ELSE "no"

\* Python's  v[key]  for a string key
Subscript(v, key) ==
  IF v.t # "obj" THEN [ok |-> FALSE, error |-> "TypeError", val |-> Null]
  ELSE IF key \notin DOMAIN v.d THEN [ok |-> FALSE, error |-> "KeyError", val |-> Null]
  ELSE [ok |-> TRUE, error |-> "", val |-> v.d[key]]

\* v[k1][k2]
Subscript2(v, k1, k2) ==
  IF Subscript(v, k1).ok THEN Subscript(Subscript(v, k1).val, k2) ELSE Subscript(v, k1)

\* the eight subscriptions that build current_pos, current_orientation and
\* target_pos, in the order the code evaluates them
PositionLookups ==
  << <<"camera_position", "x">>, <<"camera_position", "y">>, <<"camera_position", "z">>,
     <<"camera_orientation", "yaw">>, <<"camera_orientation", "pitch">>,
     <<"target_position", "x">>, <<"target_position", "y">>, <<"target_position", "z">> >>

-----------------------------------------------------------------------------
(* agent3_navigation.py: navigation metrics                                *)
(* Coordinates are whole meters and yaw whole degrees; angles are kept in  *)
(* thousandths of a degree and distances in millimeters.                   *)

Abs(n) == IF n < 0 THEN 0 - n ELSE n

RECURSIVE SqrtSearch(_, _, _)
\* the r in lo..hi-1 with r*r <= n < (r+1)*(r+1)
SqrtSearch(n, lo, hi) ==
  IF hi - lo <= 1 THEN lo
  ELSE LET mid == (lo + hi) \div 2
       IN IF mid * mid <= n THEN SqrtSearch(n, mid, hi) ELSE SqrtSearch(n, lo, mid)

\* math.sqrt of a squared length in square meters, in millimeters
SqrtMilli(squared) == SqrtSearch(squared * 1000000, 0, 46340)

\* math.degrees(math.atan2(a, b)) for a >= 0, b >= 0, in thousandths of a degree
AtanFirstQuadrant(a, b) ==
  CASE a = 0 -> 0
    [] b = 0 -> 90000
    [] a = b -> 45000
    [] 2 * a = b -> 26565
    [] a = 2 * b -> 63435
    [] 3 * a = b -> 18435
    [] a = 3 * b -> 71565
    [] 3 * a = 2 * b -> 33690
    [] 2 * a = 3 * b -> 56310

\* math.degrees(math.atan2(dx, dz))
AngleToTarget(dx, dz) ==
  LET base == AtanFirstQuadrant(Abs(dx), Abs(dz))
  IN IF dz >= 0 THEN (IF dx >= 0 THEN base ELSE 0 - base)
     ELSE (IF dx >= 0 THEN 180000 - base ELSE base - 180000)

RECURSIVE NormalizeAngle(_)
\* the two while loops that bring relative_angle to -180..180
NormalizeAngle(relative_angle) ==
  IF relative_angle > 180000 THEN NormalizeAngle(relative_angle - 360000)
  ELSE IF relative_angle < -180000 THEN NormalizeAngle(relative_angle + 360000)
  ELSE relative_angle

\* variant: the thresholds belong to forward and behind
Direction_Inclusive(relative_angle) ==
  IF Abs(relative_angle) <= 45000 THEN "forward"
  ELSE IF Abs(relative_angle) >= 135000 THEN "behind"
  ELSE IF relative_angle > 0 THEN "right"
  ELSE "left"

Direction(relative_angle) ==
  IF Abs(relative_angle) < 45000 THEN "forward"
  ELSE IF Abs(relative_angle) > 135000 THEN "behind"
  ELSE IF relative_angle > 0 THEN "right"
  ELSE "left"

\* calculate_navigation_direction; positions are [x, y, z], orientation [yaw, pitch]
calculate_navigation_direction(current_pos, current_orientation, target_pos) ==
  LET dx == target_pos.x - current_pos.x
      dy == target_pos.y - current_pos.y
      dz == target_pos.z - current_pos.z
      relative_angle == NormalizeAngle(AngleToTarget(dx, dz) - 1000 * current_orientation.yaw)
  IN [distance |-> SqrtMilli(dx * dx + dy * dy + dz * dz),
      horizontal_distance |-> SqrtMilli(dx * dx + dz * dz),
      vertical_distance |-> 1000 * dy,
      relative_angle |-> relative_angle,
      direction |-> Direction(relative_angle),
      height_diff |-> 1000 * dy]

\* steps = int(distance * 1.5)
Steps(horizontal_distance) == (horizontal_distance * 15) \div 10000

\* the computed fields of the prompt of generate_navigation_instructions
InstructionPrompt(target_object, nav_metrics) ==
  [target_object |-> target_object,
   distance |-> nav_metrics.horizontal_distance,
   steps |-> Steps(nav_metrics.horizontal_distance),
   relative_angle |-> nav_metrics.relative_angle,
   direction |-> nav_metrics.direction,
   height |-> IF nav_metrics.height_diff > 0 THEN "higher"
              ELSE IF nav_metrics.height_diff < 0 THEN "lower"
              ELSE "same level"]

\* variant: the arrival message is kept for exactly zero steps
create_step_by_step_guidance_ZeroOnly(target_object, steps_remaining, direction) ==
  IF steps_remaining > 5
    THEN "Keep going " \o direction \o ". " \o IntToStr(steps_remaining)
           \o " steps to the " \o target_object \o ". I'm here with you."
  ELSE IF steps_remaining # 0
    THEN "Almost there! Just " \o IntToStr(steps_remaining) \o " more steps "
           \o direction \o "."
  ELSE "You've arrived! The " \o target_object \o " should be right in front of you now."

\* create_step_by_step_guidance
create_step_by_step_guidance(target_object, steps_remaining, direction) ==
  IF steps_remaining > 5
    THEN "Keep going " \o direction \o ". " \o IntToStr(steps_remaining)
           \o " steps to the " \o target_object \o ". I'm here with you."
  ELSE IF steps_remaining > 0
    THEN "Almost there! Just " \o IntToStr(steps_remaining) \o " more steps "
           \o direction \o "."
  ELSE "You've arrived! The " \o target_object \o " should be right in front of you now."

-----------------------------------------------------------------------------
(* orchestrator.py: one run of process_user_request                        *)

VARIABLES
  pc,                  \* position of the run
  error,               \* the exception that ended the run, "" if none
  trace,               \* the states of the request state machine passed so far
  calls,               \* the calls made to collaborators, in order
  video_frames,        \* argument: the frame paths
  max_search_duration, \* argument
  vision_backend_url,  \* settings.vision_backend_url
  transcript,
  intent_data,
  intent,
  target_object,
  enhanced_query,
  response_text,
  action_taken,
  additional_data,
  idx,                 \* search: index of the frame the loop is at
  found,               \* search
  location_description,\* search
  best_frame_idx,      \* search
  search_result,
  position_data,
  result,              \* the returned dictionary, Null before the return
  earlier,             \* what was observed of a finished run that this run
                       \* repeats with another max_search_duration; Null if none
  requests,            \* main.py: the locals of each request that is being served
  disk,                \* the temporary directories made and the files in them
  accesses             \* which request opened which path, for reading or writing

vars ==
  << pc, error, trace, calls, video_frames, max_search_duration,
     vision_backend_url, transcript, intent_data, intent, target_object,
     enhanced_query, response_text, action_taken, additional_data, idx, found,
     location_description, best_frame_idx, search_result, position_data, result,
     earlier, requests, disk, accesses >>

arguments == << video_frames, max_search_duration, vision_backend_url >>
\* what no step of a run changes
held == << arguments, earlier, requests, disk, accesses >>
intentVars == << transcript, intent_data, intent, target_object, enhanced_query >>
actionVars == << response_text, action_taken, additional_data >>
searchVars == << idx, found, location_description, best_frame_idx, search_result >>

\* variant: the temporary navigation audio is written to the working directory
NavigationAudioPath_Shared(output) == [parent |-> ".", name |-> "navigation_temp.mp3"]

\* output_audio_path.parent / "navigation_temp.mp3"
NavigationAudioPath(output) == [parent |-> output.parent, name |-> "navigation_temp.mp3"]

\* output_audio_path and the temporary navigation audio next to it
output_audio_path == [parent |-> "out", name |-> "response.mp3"]
nav_audio_path == NavigationAudioPath(output_audio_path)

\* a run of process_user_request looked at on its own
NoOtherRequest ==
  /\ requests = << >>
  /\ disk = [dirs |-> {}, files |-> << >>]
  /\ accesses = {}

\* main.py names the saved frames frame_0, frame_1, ...
FramePaths(n) == [i \in 1..n |-> "frame_" \o IntToStr(i - 1)]

Init ==
  /\ pc = "Init"
  /\ error = ""
  /\ trace = << "Init" >>
  /\ calls = << >>
  /\ video_frames \in { FramePaths(n) : n \in 0..MaxFrames }
  /\ max_search_duration \in Durations
  /\ vision_backend_url \in BackendUrls
  /\ transcript = ""
  /\ intent_data = Null
  /\ intent = Null
  /\ target_object = Null
  /\ enhanced_query = Null
  /\ response_text = Str("")
  /\ action_taken = ""
  /\ additional_data = << >>
  /\ idx = 0
  /\ found = FALSE
  /\ location_description = Str("")
  /\ best_frame_idx = -1
  /\ search_result = Null
  /\ position_data = Null
  /\ result = Null
  /\ earlier = Null
  /\ NoOtherRequest

\* an exception leaves process_user_request after the calls in made
Raise(exception, made) ==
  /\ pc' = "Raised"
  /\ error' = exception
  /\ calls' = calls \o made

\* Step 1: transcribe_audio_to_text
Transcribe ==
  /\ pc = "Init"
  /\ \/ /\ Raise("APIError", << [fn |-> "stt"] >>)
        /\ UNCHANGED << trace, transcript >>
     \/ \E text \in Transcripts :
          /\ transcript' = text
          /\ pc' = "Transcribed"
          /\ trace' = Append(trace, "Transcribed")
          /\ calls' = Append(calls, [fn |-> "stt"])
          /\ error' = error
  /\ UNCHANGED << held, intent_data, intent, target_object, enhanced_query,
                  actionVars, searchVars, position_data, result >>

\* the fallback dictionary of extract_keywords_and_intent
ClassifierFallback(text) ==
  Obj([keywords |-> List(<< >>), intent |-> Str("general"),
       target_object |-> Str(""), enhanced_query |-> Str(text)])

\* extract_keywords_and_intent after the model has answered: the dictionary
\* returned, ok = FALSE when setdefault is applied to a value that is no dict
EnsureFields(data, text) ==
  IF data.t # "obj" THEN [ok |-> FALSE, data |-> Null]
  ELSE [ok |-> TRUE,
        data |-> SetDefault(SetDefault(SetDefault(SetDefault(data,
                   "keywords", List(<< >>)),
                   "intent", Str("general")),
                   "target_object", Str("")),
                   "enhanced_query", Str(text))]

DecodedOrFallback(parsed, text) ==
  IF parsed.ok THEN parsed.val ELSE ClassifierFallback(text)

extract_keywords_and_intent(text, content) ==
  EnsureFields(DecodedOrFallback(JsonLoads(content), text), text)

\* Step 2: intent recognition
Classify ==
  /\ pc = "Transcribed"
  /\ \/ /\ Raise("APIError", << [fn |-> "classify", transcript |-> transcript,
                                  outcome |-> "error", content |-> ""] >>)
        /\ UNCHANGED << trace, intent_data, intent, target_object, enhanced_query >>
     \/ \E content \in ClassifierContents :
        \E r \in {extract_keywords_and_intent(transcript, content)} :
          LET call == [fn |-> "classify", transcript |-> transcript,
                       outcome |-> "ok", content |-> content]
          IN IF ~r.ok
               THEN /\ Raise("AttributeError", << call >>)
                    /\ UNCHANGED << trace, intent_data, intent, target_object,
                                    enhanced_query >>
               ELSE /\ intent_data' = r.data
                    /\ intent' = r.data.d["intent"]
                    /\ target_object' = r.data.d["target_object"]
                    /\ enhanced_query' = r.data.d["enhanced_query"]
                    /\ pc' = "IntentClassified"
                    /\ trace' = Append(trace, "IntentClassified")
                    /\ calls' = Append(calls, call)
                    /\ error' = error
  /\ UNCHANGED << held, transcript, actionVars, searchVars, position_data, result >>

NeedFrameDescribe == "I need a video frame to describe the scene."
NeedFrameGeneral == "I need a video frame to answer your question."

\* the describe and the general branch: ask the vision model about the first
\* frame, or answer with the fixed text when there is no frame
AskFirstFrame(action, max_tokens, no_frame_text) ==
  /\ IF Len(video_frames) > 0
       THEN LET call == [fn |-> "vlm", frame |-> video_frames[1],
                         query |-> enhanced_query, max_tokens |-> max_tokens]
            IN \/ /\ Raise("APIError", << call >>)
                  /\ action_taken' = action
                  /\ UNCHANGED << response_text, additional_data >>
               \/ \E content \in VlmContents :
                    /\ response_text' = Str(content)
                    /\ action_taken' = action
                    /\ pc' = "Dispatched"
                    /\ calls' = Append(calls, call)
                    /\ error' = error
                    /\ UNCHANGED additional_data
       ELSE /\ response_text' = Str(no_frame_text)
            /\ action_taken' = action
            /\ pc' = "Dispatched"
            /\ UNCHANGED << calls, error, additional_data >>
  /\ trace' = Append(trace, "ActionDispatched")
  /\ UNCHANGED << held, intentVars, searchVars, position_data, result >>

\* variant: a describe request without a frame fails
Describe_FailsWithoutFrame ==
  /\ pc = "IntentClassified"
  /\ intent = Str("describe")
  /\ IF Len(video_frames) > 0
       THEN AskFirstFrame("scene_description", 60, NeedFrameDescribe)
       ELSE /\ Raise("IndexError", << >>)
            /\ trace' = Append(trace, "ActionDispatched")
            /\ UNCHANGED << held, intentVars, actionVars, searchVars,
                            position_data, result >>

\* Step 3, intent == "describe"
Describe ==
  /\ pc = "IntentClassified"
  /\ intent = Str("describe")
  /\ AskFirstFrame("scene_description", 60, NeedFrameDescribe)

\* variant: a find without a target still starts the search
IsFind_AnyTarget == intent = Str("find")

\* variant: any intent with a target starts the search
IsFind_AnyIntent == Truthy(target_object)

\* the condition of the find branch
IsFind == intent = Str("find") /\ Truthy(target_object)

\* Step 3, else branch
General ==
  /\ pc = "IntentClassified"
  /\ intent # Str("describe")
  /\ ~IsFind
  /\ AskFirstFrame("general_query", 50, NeedFrameGeneral)

\* variant: a find without frames is answered like a general query without frames
FindStart_NeedsFrame ==
  /\ pc = "IntentClassified"
  /\ IsFind
  /\ found' = FALSE
  /\ location_description' = Str("")
  /\ best_frame_idx' = -1
  /\ idx' = 0
  /\ trace' = Append(trace, "ActionDispatched")
  /\ IF Len(video_frames) = 0
       THEN /\ action_taken' = "general_query"
            /\ response_text' = Str(NeedFrameGeneral)
            /\ pc' = "Dispatched"
       ELSE /\ action_taken' = "object_search"
            /\ response_text' = response_text
            /\ pc' = "Searching"
  /\ UNCHANGED << error, calls, held, intentVars,
                  additional_data, search_result, position_data, result >>

\* Step 3, intent == "find" with a target: the search begins
FindStart ==
  /\ pc = "IntentClassified"
  /\ IsFind
  /\ action_taken' = "object_search"
  /\ found' = FALSE
  /\ location_description' = Str("")
  /\ best_frame_idx' = -1
  /\ idx' = 0
  /\ pc' = "Searching"
  /\ trace' = Append(trace, "ActionDispatched")
  /\ UNCHANGED << error, calls, held, intentVars, response_text,
                  additional_data, search_result, position_data, result >>

\* variant: the loop goes on after a match
JudgeNextFrame_NoBreak(contents) ==
  /\ pc = "Searching"
  /\ idx < Len(video_frames)
  /\ \E content \in contents :
       \E j \in {JudgeFrame(content, target_object.s)} :
         /\ j.verdict # "raise"
         /\ found' = (found \/ j.verdict = "found")
         /\ location_description' =
              IF j.verdict = "found" THEN j.description ELSE location_description
         /\ best_frame_idx' = IF j.verdict = "found" THEN idx ELSE best_frame_idx
         /\ idx' = idx + 1
         /\ calls' = Append(calls, [fn |-> "judge", frame |-> idx, content |-> content])
  /\ UNCHANGED << pc, error, trace, held, intentVars, actionVars, search_result,
                  position_data, result >>

\* search_object_in_frames: one pass of the loop, on the frame at idx
JudgeNextFrame(contents) ==
  /\ pc = "Searching"
  /\ ~found
  /\ idx < Len(video_frames)
  /\ \/ /\ Raise("APIError", << [fn |-> "judge", frame |-> idx, content |-> ""] >>)
        /\ UNCHANGED << idx, found, location_description, best_frame_idx >>
     \/ \E content \in contents :
        \E j \in {JudgeFrame(content, target_object.s)} :
          LET call == [fn |-> "judge", frame |-> idx, content |-> content]
          IN CASE j.verdict = "raise" ->
                    /\ Raise(j.error, << call >>)
                    /\ UNCHANGED << idx, found, location_description, best_frame_idx >>
               [] j.verdict = "found" ->
                    /\ found' = TRUE
                    /\ location_description' = j.description
                    /\ best_frame_idx' = idx
                    /\ calls' = Append(calls, call)
                    /\ UNCHANGED << pc, error, idx >>
               [] j.verdict = "next" ->
                    /\ idx' = idx + 1
                    /\ calls' = Append(calls, call)
                    /\ UNCHANGED << pc, error, found, location_description, best_frame_idx >>
  /\ UNCHANGED << trace, held, intentVars, actionVars, search_result,
                  position_data, result >>

SearchFrame == JudgeNextFrame(Judgments)

\* variant: the default duration is written into the text
NotFoundText_FixedDuration(target, duration) ==
  "I've been looking for the " \o target
    \o " for 5 seconds, but I haven't found it yet. Please move your camera around slowly so I can see more of the area."

\* the response text of the object_not_found outcome
NotFoundText(target, duration) ==
  "I've been looking for the " \o target \o " for " \o IntToStr(duration)
    \o " seconds, but I haven't found it yet. Please move your camera around slowly so I can see more of the area."

\* variant: the search also returns once idx * 5 seconds have used up the duration
SearchReturn_TimedOut ==
  /\ pc = "Searching"
  /\ found \/ idx = Len(video_frames) \/ (idx > 0 /\ idx * 5 >= max_search_duration)
  /\ search_result' = SearchResult(found, best_frame_idx, location_description,
                                   max_search_duration, target_object.s)
  /\ IF search_result'.found
       THEN /\ action_taken' = "object_found_navigation"
            /\ pc' = "Locating"
            /\ UNCHANGED << response_text, additional_data >>
       ELSE /\ action_taken' = "object_not_found"
            /\ response_text' = Str(NotFoundText(target_object.s, max_search_duration))
            /\ additional_data' = [object_found |-> FALSE]
            /\ pc' = "Dispatched"
  /\ UNCHANGED << error, trace, calls, held, intentVars, idx, found,
                  location_description, best_frame_idx, position_data, result >>

\* search_object_in_frames returns; the orchestrator branches on found
SearchReturn ==
  /\ pc = "Searching"
  /\ found \/ idx = Len(video_frames)
  /\ search_result' = SearchResult(found, best_frame_idx, location_description,
                                   max_search_duration, target_object.s)
  /\ IF search_result'.found
       THEN /\ action_taken' = "object_found_navigation"
            /\ pc' = "Locating"
            /\ UNCHANGED << response_text, additional_data >>
       ELSE /\ action_taken' = "object_not_found"
            /\ response_text' = Str(NotFoundText(target_object.s, max_search_duration))
            /\ additional_data' = [object_found |-> FALSE]
            /\ pc' = "Dispatched"
  /\ UNCHANGED << error, trace, calls, held, intentVars, idx, found,
                  location_description, best_frame_idx, position_data, result >>

\* variant: localization is given the first frame
found_frame_First == video_frames[1]

\* found_frame
found_frame == video_frames[search_result.frame_index + 1]

\* call_3d_reconstruction_service on the matched frame
Locate ==
  /\ pc = "Locating"
  /\ \E outcome \in (IF vision_backend_url = ""
                       THEN {[kind |-> "none", body |-> ""]} ELSE LocateOutcomes) :
       /\ position_data' = LocateResult(vision_backend_url, outcome)
       /\ calls' = Append(calls, [fn |-> "locate", target_object |-> target_object,
                                  frame |-> found_frame,
                                  network |-> vision_backend_url # "",
                                  outcome |-> outcome.kind])
  /\ pc' = "Located"
  /\ UNCHANGED << error, trace, held, intentVars, actionVars, searchVars, result >>

\* the first of the eight subscriptions that fails, 0 if none fails
FirstFailedLookup(data) ==
  LET failed == {i \in 1..8 :
                   ~Subscript2(data, PositionLookups[i][1], PositionLookups[i][2]).ok}
  IN IF failed = {} THEN 0 ELSE CHOOSE i \in failed : \A j \in failed : i <= j

Coordinate(data, k1, k2) == Subscript2(data, k1, k2).val

\* variant: the confirmation leaves additional_data empty
Confirm_Unflagged ==
  /\ response_text' = search_result.description
  /\ additional_data' = << >>
  /\ pc' = "Dispatched"
  /\ UNCHANGED << error, calls >>

\* variant: the confirmation carries the received positions
Confirm_WithPositions ==
  /\ response_text' = search_result.description
  /\ additional_data' = [object_found |-> TRUE, positions |-> position_data]
  /\ pc' = "Dispatched"
  /\ UNCHANGED << error, calls >>

\* the degraded outcome: confirm the find
Confirm ==
  /\ response_text' = search_result.description
  /\ additional_data' = [object_found |-> TRUE]
  /\ pc' = "Dispatched"
  /\ UNCHANGED << error, calls >>

\* variant: the received positions are left out
NavigationData_NoPositions(nav_metrics, data) ==
  [object_found |-> TRUE, navigation_metrics |-> nav_metrics]

\* additional_data of the navigation outcome
NavigationData(nav_metrics, data) ==
  [object_found |-> TRUE, navigation_metrics |-> nav_metrics, positions |-> data]

\* navigate_to_target and the assignments after it
RunNavigation ==
  LET lookup == FirstFailedLookup(position_data)
      coords == [i \in 1..8 |-> Coordinate(position_data, PositionLookups[i][1],
                                           PositionLookups[i][2])]
      current_pos == [x |-> coords[1].n, y |-> coords[2].n, z |-> coords[3].n]
      current_orientation == [yaw |-> coords[4].n, pitch |-> coords[5].n]
      target_pos == [x |-> coords[6].n, y |-> coords[7].n, z |-> coords[8].n]
      navigate == [fn |-> "navigate", target_object |-> target_object,
                   current_pos |-> current_pos,
                   current_orientation |-> current_orientation,
                   target_pos |-> target_pos]
      nav_metrics == calculate_navigation_direction(current_pos, current_orientation,
                                                    target_pos)
      instruct == [fn |-> "instruct",
                   prompt |-> InstructionPrompt(target_object, nav_metrics)]
  IN IF lookup # 0
       THEN /\ Raise(Subscript2(position_data, PositionLookups[lookup][1],
                                PositionLookups[lookup][2]).error, << >>)
            /\ UNCHANGED actionVars
     ELSE IF \E i \in {1, 2, 3, 4, 6, 7, 8} : coords[i].t # "num"
       THEN /\ Raise("TypeError", << navigate >>)
            /\ UNCHANGED actionVars
     ELSE \/ /\ Raise("APIError", << navigate, instruct >>)
             /\ UNCHANGED actionVars
          \/ \E instructions \in InstructionContents :
               LET tts == [fn |-> "tts", text |-> Str(instructions),
                           path |-> nav_audio_path]
               IN \/ /\ TtsInputError(Str(instructions)) # ""
                     /\ Raise(TtsInputError(Str(instructions)),
                              << navigate, instruct, tts >>)
                     /\ UNCHANGED actionVars
                  \/ /\ TtsInputError(Str(instructions)) = ""
                     /\ Raise("APIError", << navigate, instruct, tts >>)
                     /\ UNCHANGED actionVars
                  \/ /\ TtsInputError(Str(instructions)) = ""
                     /\ response_text' = Str(instructions)
                     /\ additional_data' = NavigationData(nav_metrics, position_data)
                     /\ calls' = calls \o << navigate, instruct, tts >>
                     /\ pc' = "Dispatched"
                     /\ UNCHANGED << error, action_taken >>

\* variant: a confirmation without navigation has an action name of its own
Navigate_ConfirmedAction ==
  /\ pc = "Located"
  /\ CASE HasValidFormat(position_data) = "TypeError" ->
            /\ Raise("TypeError", << >>)
            /\ UNCHANGED actionVars
       [] HasValidFormat(position_data) = "yes" -> RunNavigation
       [] HasValidFormat(position_data) = "no" ->
            Confirm /\ action_taken' = "object_found_confirmation"
  /\ UNCHANGED << trace, held, intentVars, searchVars, position_data, result >>

\* validation of the localization result, then navigation or confirmation
Navigate ==
  /\ pc = "Located"
  /\ CASE HasValidFormat(position_data) = "TypeError" ->
            /\ Raise("TypeError", << >>)
            /\ UNCHANGED actionVars
       [] HasValidFormat(position_data) = "yes" -> RunNavigation
       [] HasValidFormat(position_data) = "no" -> Confirm /\ UNCHANGED action_taken
  /\ UNCHANGED << trace, held, intentVars, searchVars, position_data, result >>

\* variant: the response is returned without being spoken
Synthesize_Unvoiced ==
  /\ pc = "Dispatched"
  /\ pc' = "ResponseSynthesized"
  /\ trace' = Append(trace, "ResponseSynthesized")
  /\ UNCHANGED << error, calls, held, intentVars, actionVars, searchVars,
                  position_data, result >>

\* Step 4: text_to_speech_gentle(response_text, output_audio_path)
Synthesize ==
  /\ pc = "Dispatched"
  /\ LET tts == [fn |-> "tts", text |-> response_text, path |-> output_audio_path]
     IN \/ /\ TtsInputError(response_text) # ""
           /\ Raise(TtsInputError(response_text), << tts >>)
           /\ UNCHANGED trace
        \/ /\ TtsInputError(response_text) = ""
           /\ Raise("APIError", << tts >>)
           /\ UNCHANGED trace
        \/ /\ TtsInputError(response_text) = ""
           /\ calls' = Append(calls, tts)
           /\ pc' = "ResponseSynthesized"
           /\ trace' = Append(trace, "ResponseSynthesized")
           /\ error' = error
  /\ UNCHANGED << held, intentVars, actionVars, searchVars, position_data, result >>

\* the dictionary process_user_request returns
Return ==
  /\ pc = "ResponseSynthesized"
  /\ result' = [intent |-> intent, transcript |-> transcript,
                target_object |-> target_object, action_taken |-> action_taken,
                response_text |-> response_text,
                audio_output |-> output_audio_path,
                additional_data |-> additional_data]
  /\ pc' = "Done"
  /\ trace' = Append(trace, "Done")
  /\ UNCHANGED << error, calls, held, intentVars, actionVars, searchVars,
                  position_data >>

Next ==
  \/ Transcribe
  \/ Classify
  \/ Describe
  \/ General
  \/ FindStart
  \/ SearchFrame
  \/ SearchReturn
  \/ Locate
  \/ Navigate
  \/ Synthesize
  \/ Return

Spec == Init /\ [][Next]_vars

-----------------------------------------------------------------------------
(* search_object_in_frames on its own: the runs start where the find       *)
(* branch has just entered the search, and the vision model may answer     *)
(* with any of the free texts.                                             *)

InitSearch ==
  /\ pc = "Searching"
  /\ error = ""
  /\ trace = << "Init", "Transcribed", "IntentClassified", "ActionDispatched" >>
  /\ transcript \in Transcripts
  /\ calls = << [fn |-> "stt"],
                [fn |-> "classify", transcript |-> transcript, outcome |-> "ok",
                 content |-> "{\"intent\": \"find\"}"] >>
  /\ video_frames \in { FramePaths(n) : n \in 0..MaxFrames }
  /\ max_search_duration \in Durations
  /\ vision_backend_url = ""
  /\ \E name \in Targets :
       /\ intent_data = Obj([keywords |-> List(<< >>), intent |-> Str("find"),
                             target_object |-> Str(name),
                             enhanced_query |-> Str(transcript)])
       /\ target_object = Str(name)
  /\ intent = Str("find")
  /\ enhanced_query = Str(transcript)
  /\ response_text = Str("")
  /\ action_taken = "object_search"
  /\ additional_data = << >>
  /\ idx = 0
  /\ found = FALSE
  /\ location_description = Str("")
  /\ best_frame_idx = -1
  /\ search_result = Null
  /\ position_data = Null
  /\ result = Null
  /\ earlier = Null
  /\ NoOtherRequest

SearchFrameWide == JudgeNextFrame(WideJudgments)

NextSearch ==
  \/ SearchFrameWide
  \/ SearchReturn

SpecSearch == InitSearch /\ [][NextSearch]_vars

-----------------------------------------------------------------------------
(* Properties                                                              *)

CallIndices(f) == {i \in 1..Len(calls) : calls[i].fn = f}
Called(f) == CallIndices(f) # {}

\* the find branch was taken and the search has returned this verdict
SearchReturned(verdict) ==
  /\ IsFind
  /\ search_result # Null
  /\ search_result.found = verdict

\* the localization result is None or a dictionary lacking a required key
LocalizationUnavailable ==
  \/ position_data = Null
  \/ /\ position_data.t = "obj"
     /\ \E i \in 1..3 : RequiredKeys[i] \notin DOMAIN position_data.d

\* the localization result is a dictionary with the three required keys
LocalizationComplete ==
  /\ position_data.t = "obj"
  /\ \A i \in 1..3 : RequiredKeys[i] \in DOMAIN position_data.d

\* C1: a returned result carries the final response_text, and the call made
\* last before the return is the speech synthesis of exactly that text to
\* the output audio path.
C1_SynthesisBeforeReturn ==
  result # Null =>
    /\ result.response_text = response_text
    /\ Len(calls) > 0
    /\ calls[Len(calls)] = [fn |-> "tts", text |-> result.response_text,
                            path |-> output_audio_path]

\* a result was returned on the degraded path of a find
C1_Witness ==
  /\ result # Null
  /\ result.action_taken = "object_found_navigation"
  /\ DOMAIN result.additional_data = {"object_found"}

\* C2: every text handed to the final speech synthesis is a non-empty string
\* that is not all whitespace, and no run ends with the ValueError of
\* text_to_speech.
C2_SynthesisTextNeverEmpty ==
  /\ error # "ValueError"
  /\ \A i \in CallIndices("tts") :
       calls[i].path = output_audio_path =>
         /\ calls[i].text.t = "str"
         /\ Strip(calls[i].text.s) # ""

StateOrder ==
  << "Init", "Transcribed", "IntentClassified", "ActionDispatched",
     "ResponseSynthesized", "Done" >>

\* C3: the states are passed in the order of StateOrder without repetition,
\* and a run that has stopped has passed all of them and is at Done.
C3_DoneAlwaysReached ==
  /\ \E n \in 1..Len(StateOrder) : trace = SubSeq(StateOrder, 1, n)
  /\ pc \in {"Done", "Raised"} => (pc = "Done" /\ trace = StateOrder)

\* C4: after a successful search of a find request whose localization is
\* unavailable, the planner is not called, localization was called once, and
\* a returned result is the confirmation: action object_found_navigation,
\* the search description as text, additional_data = {object_found: true}.
C4_DegradedConfirmation ==
  (SearchReturned(TRUE) /\ Called("locate") /\ LocalizationUnavailable) =>
    /\ ~Called("navigate")
    /\ ~Called("instruct")
    /\ Cardinality(CallIndices("locate")) = 1
    /\ result # Null =>
         /\ result.action_taken = "object_found_navigation"
         /\ result.response_text = search_result.description
         /\ DOMAIN result.additional_data = {"object_found"}
         /\ result.additional_data["object_found"] = TRUE

\* a result was returned after the backend answered without camera_orientation
C4_Witness ==
  /\ result # Null
  /\ Called("locate")
  /\ position_data.t = "obj"
  /\ "target_position" \in DOMAIN position_data.d
  /\ "camera_orientation" \notin DOMAIN position_data.d

\* C5 as stated: with no backend configured a successful find does not reach
\* the navigation outcome and returns additional_data = {object_found: true}.
C5_NoNavigationWithoutBackend ==
  (result # Null /\ SearchReturned(TRUE) /\ vision_backend_url = "") =>
    /\ DOMAIN result.additional_data = {"object_found"}
    /\ result.action_taken # "object_found_navigation"

\* C5 amended: with no backend configured a successful find is located at
\* the mock positions and a returned result is the navigation outcome, with
\* object_found, navigation_metrics and the mock positions in additional_data.
C5_MockLeadsToNavigation ==
  (result # Null /\ SearchReturned(TRUE) /\ vision_backend_url = "") =>
    /\ result.action_taken = "object_found_navigation"
    /\ DOMAIN result.additional_data =
         {"object_found", "navigation_metrics", "positions"}
    /\ result.additional_data["object_found"] = TRUE
    /\ result.additional_data["positions"] = MockPositions
    /\ Called("navigate")

\* a find succeeded and returned with no backend configured
C5_Witness ==
  /\ result # Null
  /\ SearchReturned(TRUE)
  /\ vision_backend_url = ""

\* C6: once localization was called, without a backend the result is the
\* mock (for every target and frame, no network call) and the planner runs
\* on the mock positions; with a backend whose call failed the result is
\* None, never the mock, and the planner does not run.
C6_TwoStateLocalization ==
  \A i \in CallIndices("locate") :
    /\ vision_backend_url = "" =>
         /\ ~calls[i].network
         /\ position_data = MockPositions
         /\ pc \in {"Dispatched", "ResponseSynthesized", "Done"} =>
              \E n \in CallIndices("navigate") :
                /\ calls[n].target_pos = [x |-> 2, y |-> 0, z |-> 3]
                /\ calls[n].current_pos = [x |-> 0, y |-> 0, z |-> 0]
                /\ calls[n].current_orientation = [yaw |-> 0, pitch |-> 0]
    /\ (vision_backend_url # "" /\ calls[i].outcome \in {"error", "status"}) =>
         /\ calls[i].network
         /\ position_data = Null
         /\ ~Called("navigate")

\* a request returned after the call to a configured backend failed
C6_Witness ==
  /\ pc = "Done"
  /\ vision_backend_url # ""
  /\ \E i \in CallIndices("locate") : calls[i].outcome = "error"

\* C7: after an unsuccessful search of a find request neither localization
\* nor the planner is called, and a returned result has action
\* object_not_found, additional_data = {object_found: false} and a text that
\* contains the target name and the value of max_search_duration.
C7_NotFoundOutcome ==
  SearchReturned(FALSE) =>
    /\ ~Called("locate")
    /\ ~Called("navigate")
    /\ result # Null =>
         /\ result.action_taken = "object_not_found"
         /\ DOMAIN result.additional_data = {"object_found"}
         /\ result.additional_data["object_found"] = FALSE
         /\ result.response_text.t = "str"
         /\ Contains(result.response_text.s, target_object.s)
         /\ Contains(result.response_text.s, IntToStr(max_search_duration))

\* a request with two or more frames, none matching, has returned
C7_Witness ==
  /\ result # Null
  /\ SearchReturned(FALSE)
  /\ Len(video_frames) >= 2

\* the planner was called with the positions of the localization result
PlannerRunOnPayload ==
  \E n \in CallIndices("navigate") :
    /\ calls[n].current_pos =
         [x |-> position_data.d["camera_position"].d["x"].n,
          y |-> position_data.d["camera_position"].d["y"].n,
          z |-> position_data.d["camera_position"].d["z"].n]
    /\ calls[n].current_orientation =
         [yaw |-> position_data.d["camera_orientation"].d["yaw"].n,
          pitch |-> position_data.d["camera_orientation"].d["pitch"].n]
    /\ calls[n].target_pos =
         [x |-> position_data.d["target_position"].d["x"].n,
          y |-> position_data.d["target_position"].d["y"].n,
          z |-> position_data.d["target_position"].d["z"].n]
    /\ result.additional_data["navigation_metrics"] =
         calculate_navigation_direction(calls[n].current_pos,
           calls[n].current_orientation, calls[n].target_pos)

\* response_text is the text of the generated instructions
TextIsInstructions ==
  \E i \in CallIndices("tts") :
    /\ calls[i].path = nav_audio_path
    /\ calls[i].text = result.response_text

\* C8 as stated: after a successful search and a localization result with
\* the three keys, a returned result has the instructions as text, the
\* planner was run on the positions received, and additional_data has
\* exactly the keys object_found, navigation_metrics and raw_position_data.
C8_RawPositionDataKey ==
  (result # Null /\ SearchReturned(TRUE) /\ LocalizationComplete) =>
    /\ DOMAIN result.additional_data =
         {"object_found", "navigation_metrics", "raw_position_data"}
    /\ result.additional_data["object_found"] = TRUE
    /\ TextIsInstructions
    /\ PlannerRunOnPayload

\* C8 amended: as C8, with the received positions under the key positions.
C8_NavigationOutcome ==
  (result # Null /\ SearchReturned(TRUE) /\ LocalizationComplete) =>
    /\ DOMAIN result.additional_data =
         {"object_found", "navigation_metrics", "positions"}
    /\ result.additional_data["object_found"] = TRUE
    /\ result.additional_data["positions"] = position_data
    /\ TextIsInstructions
    /\ PlannerRunOnPayload

\* a navigation result on positions received from a configured backend
C8_Witness ==
  /\ result # Null
  /\ SearchReturned(TRUE)
  /\ LocalizationComplete
  /\ vision_backend_url # ""

\* the code judges this content a match for the target of the run
Positive(content) == JudgeFrame(content, target_object.s).verdict = "found"

\* C9: when the search returns found, the frames judged are exactly those
\* from 0 to frame_index, each once, every frame before frame_index was
\* judged negative and the frame at frame_index positive; no later frame is
\* judged.
C9_FirstMatchEarlyExit ==
  (search_result # Null /\ search_result.found) =>
    /\ { calls[i].frame : i \in CallIndices("judge") } = 0..search_result.frame_index
    /\ Cardinality(CallIndices("judge")) = search_result.frame_index + 1
    /\ \A i \in CallIndices("judge") :
         Positive(calls[i].content) <=> calls[i].frame = search_result.frame_index

\* a search returned a match while a later frame was left unjudged
C9_Witness ==
  /\ search_result # Null
  /\ search_result.found
  /\ search_result.frame_index + 1 < Len(video_frames)
  /\ pc = "Done"

\* the judge calls whose content is not JSON
FreeTextCalls ==
  { i \in CallIndices("judge") : ~JsonLoads(Strip(calls[i].content)).ok }

\* the loop took the content of call i for a match
JudgedPositive(i) == found /\ best_frame_idx = calls[i].frame

NoneOf(phrases, text) == \A phrase \in phrases : ~Contains(text, phrase)

\* C10 as stated: a judgment that is not JSON is a match iff the lower-cased
\* text contains the target name and none of "don't see", "not see",
\* "cannot see", "not visible", "no <target>".
C10_FiveNegationPhrases ==
  \A i \in FreeTextCalls :
    JudgedPositive(i) <=>
      /\ Contains(Lower(calls[i].content), Lower(target_object.s))
      /\ NoneOf({ "don't see", "not see", "cannot see", "not visible",
                  "no " \o Lower(target_object.s) }, Lower(calls[i].content))

\* C10 amended: a judgment that is not JSON is a match iff the stripped,
\* lower-cased text contains the lower-cased target name and none of
\* "don't see", "not see", "cannot see", "can't see", "not visible",
\* "no <target>".
C10_SixNegationPhrases ==
  \A i \in FreeTextCalls :
    \E text \in { Lower(Strip(calls[i].content)) }, name \in { Lower(target_object.s) } :
      JudgedPositive(i) <=>
        /\ Contains(text, name)
        /\ NoneOf({ "don't see", "not see", "cannot see", "can't see", "not visible",
                    "no " \o name }, text)

\* "don't see a <target>" was judged negative and a later free text with the
\* target name was judged a match
C10_Witness ==
  /\ found
  /\ \E i \in FreeTextCalls :
       /\ Contains(Lower(calls[i].content), "don't see a " \o Lower(target_object.s))
       /\ calls[i].frame < best_frame_idx
  /\ \E i \in FreeTextCalls : calls[i].frame = best_frame_idx

-----------------------------------------------------------------------------
(* Properties of the handling of model output and of failures              *)

\* the run was ended by an exception raised during a call to f
RaisedIn(f) ==
  /\ pc = "Raised"
  /\ Len(calls) > 0
  /\ calls[Len(calls)].fn = f

\* C11: no output of the intent model or of the judging vision model makes
\* extract_keywords_and_intent or search_object_in_frames raise: a run that
\* ends in one of the two does so only because the model call itself failed.
C11_MalformedOutputSoftFail ==
  (RaisedIn("classify") \/ RaisedIn("judge")) => error = "APIError"

\* the content the intent model returned cannot be parsed as JSON
ClassifierUnparsable ==
  \E i \in CallIndices("classify") :
    calls[i].outcome = "ok" /\ ~JsonLoads(calls[i].content).ok

\* C12: a failing classification call does not end the run, and after a
\* failing call or an unparsable content the classification is the fallback:
\* intent general, target_object "", enhanced_query the transcript and no
\* keywords, and the request goes on to the general-query path.
C12_ClassifyFallback ==
  /\ ~(RaisedIn("classify") /\ error = "APIError")
  /\ (\E i \in CallIndices("classify") : calls[i].outcome = "error")
       => intent_data = ClassifierFallback(transcript)
  /\ ClassifierUnparsable =>
       /\ intent_data = ClassifierFallback(transcript)
       /\ action_taken \in {"", "general_query"}

IntentNames == {Str("describe"), Str("find"), Str("general")}

\* C13: the intent returned by the classification, and the intent field of
\* every returned result, is one of describe, find, general.
C13_IntentEnum ==
  /\ intent # Null => intent \in IntentNames
  /\ result # Null => result.intent \in IntentNames

\* the request went on to the confirmation of the find
ConfirmedFind ==
  /\ ~RaisedIn("locate")
  /\ ~Called("navigate")
  /\ response_text = search_result.description
  /\ additional_data = [object_found |-> TRUE]

\* C14: with a backend configured, when the call fails (transport error,
\* timeout, non-success status) or its response lacks one of the three
\* required keys, no exception ends the run at the localization step and
\* the request goes on with the confirmation of the find.
C14_LocalizationFailureDegrades ==
  (vision_backend_url # "" /\ Called("locate") /\ ~LocalizationComplete /\ pc # "Located")
    => ConfirmedFind

\* C15: a localization result with the three required keys in which a
\* coordinate, yaw or pitch is missing is handled like an unavailable
\* service: no exception is raised and the find is confirmed.
C15_NestedIncompleteDegrades ==
  (LocalizationComplete /\ FirstFailedLookup(position_data) # 0 /\ pc # "Located")
    => ConfirmedFind

\* number of calls made to f
Count(f) == Cardinality(CallIndices(f))

\* C16: in one run transcription, classification, localization and speech
\* synthesis are each called at most once, no frame is judged twice, and a
\* returned result was preceded by exactly one speech synthesis.
C16_EachCallAtMostOnce ==
  /\ Count("stt") <= 1
  /\ Count("classify") <= 1
  /\ Count("vlm") <= 1
  /\ Count("locate") <= 1
  /\ Count("instruct") <= 1
  /\ Count("tts") <= 1
  /\ Cardinality({ calls[i].frame : i \in CallIndices("judge") }) = Count("judge")
  /\ result # Null => Count("tts") = 1

-----------------------------------------------------------------------------
(* Properties of the dispatch                                              *)

\* the dispatch of step 3 has been entered
DispatchEntered == Len(trace) >= 4

\* the vision model was asked at most once, and then about the first frame
OnlyFirstFrameAsked ==
  /\ Count("vlm") <= 1
  /\ \A i \in CallIndices("vlm") : calls[i].frame = video_frames[1]

\* the text was answered without the vision model, and nothing but a
\* failure of the speech service has ended the run
AnsweredWithoutFrame(text) ==
  /\ ~Called("vlm")
  /\ response_text = Str(text)
  /\ pc = "Raised" => (RaisedIn("tts") /\ error = "APIError")
  /\ pc \in {"ResponseSynthesized", "Done"} =>
       calls[Len(calls)] = [fn |-> "tts", text |-> Str(text), path |-> output_audio_path]

\* C17: a describe request has action scene_description; without a frame
\* the vision model is not called, the text is the fixed "need a frame"
\* text and it is synthesized; with frames the model is asked once, about
\* the first frame.
C17_DescribeWithoutFrame ==
  (intent = Str("describe") /\ DispatchEntered) =>
    /\ action_taken = "scene_description"
    /\ ~Called("judge") /\ ~Called("locate")
    /\ Len(video_frames) = 0 =>
         AnsweredWithoutFrame("I need a video frame to describe the scene.")
    /\ Len(video_frames) > 0 => (Count("vlm") = 1 /\ OnlyFirstFrameAsked)

\* a describe request without a frame has returned a result
C17_Witness ==
  /\ result # Null
  /\ intent = Str("describe")
  /\ Len(video_frames) = 0

\* C18: a request with intent general, or with intent find and an empty
\* target, has action general_query, is never searched or localized, and
\* asks the vision model once about the first frame, or answers the fixed
\* "need a frame" text when there is no frame.
C18_GeneralQueryPath ==
  (/\ DispatchEntered
   /\ \/ intent = Str("general")
      \/ intent = Str("find") /\ target_object = Str("")) =>
    /\ action_taken = "general_query"
    /\ ~Called("judge") /\ ~Called("locate") /\ ~Called("navigate")
    /\ Len(video_frames) = 0 =>
         AnsweredWithoutFrame("I need a video frame to answer your question.")
    /\ Len(video_frames) > 0 => (Count("vlm") = 1 /\ OnlyFirstFrameAsked)

\* a find without target was answered from the first of two frames
C18_Witness ==
  /\ result # Null
  /\ intent = Str("find")
  /\ target_object = Str("")
  /\ Len(video_frames) = 2
  /\ Called("vlm")

\* C19: a returned result whose action is object_found_navigation or
\* object_not_found has a boolean object_found in additional_data, equal to
\* the found of the search result.
C19_ObjectFoundFlag ==
  (result # Null /\ result.action_taken \in {"object_found_navigation", "object_not_found"}) =>
    /\ "object_found" \in DOMAIN result.additional_data
    /\ result.additional_data["object_found"] \in BOOLEAN
    /\ search_result # Null
    /\ result.additional_data["object_found"] = search_result.found

\* a confirmation was returned after the localization call had failed
C19_Witness ==
  /\ result # Null
  /\ result.action_taken = "object_found_navigation"
  /\ position_data = Null
  /\ \E i \in CallIndices("locate") : calls[i].outcome = "error"

\* C20: a search result with found = false has frame_index -1 and a
\* description naming the duration and the target, and is returned only
\* after every frame was judged, each once, and none was a match.
C20_NotFoundAfterAllFrames ==
  (search_result # Null /\ ~search_result.found) =>
    /\ search_result.frame_index = -1
    /\ Contains(search_result.description.s, IntToStr(max_search_duration) \o " seconds")
    /\ Contains(search_result.description.s, target_object.s)
    /\ { calls[i].frame : i \in CallIndices("judge") } = 0..(Len(video_frames) - 1)
    /\ Count("judge") = Len(video_frames)
    /\ \A i \in CallIndices("judge") : ~Positive(calls[i].content)

\* two frames were judged, one of them by a free text naming the target,
\* and the search returned found = false
C20_Witness ==
  /\ search_result # Null
  /\ ~search_result.found
  /\ Len(video_frames) >= 2
  /\ \E i \in FreeTextCalls : Contains(Lower(calls[i].content), Lower(target_object.s))

\* the condition of the find branch, written out
FindWithTarget == intent = Str("find") /\ Truthy(target_object)

\* the action of a request by intent, target and verdict of the search
ActionBy(intent_value, has_target, search_found) ==
  IF intent_value = Str("describe") THEN "scene_description"
  ELSE IF intent_value = Str("find") /\ has_target
    THEN (IF search_found THEN "object_found_navigation" ELSE "object_not_found")
  ELSE "general_query"

\* C27: the action_taken of a returned result is one of scene_description,
\* object_found_navigation, object_not_found, general_query, and it is the
\* value fixed by intent, emptiness of target_object and the verdict of the
\* search, whatever localization returned.
C27_ActionTakenDetermined ==
  result # Null =>
    /\ result.action_taken \in {"scene_description", "object_found_navigation",
                                "object_not_found", "general_query"}
    /\ result.action_taken = ActionBy(result.intent, Truthy(result.target_object), found)

\* a find was returned although localization gave no usable positions
C27_Witness ==
  /\ result # Null
  /\ result.action_taken = "object_found_navigation"
  /\ Called("locate")
  /\ ~Called("navigate")

\* C28: a search result with found = true has 0 <= frame_index < number of
\* frames, one with found = false has frame_index = -1, and the frame given
\* to localization is the frame of the positive judgment.
C28_FrameIndexInRange ==
  /\ search_result # Null =>
       /\ search_result.found =>
            (0 <= search_result.frame_index
               /\ search_result.frame_index < Len(video_frames))
       /\ ~search_result.found => search_result.frame_index = -1
  /\ \A i \in CallIndices("locate") :
       \E j \in CallIndices("judge") :
         /\ j < i
         /\ Positive(calls[j].content)
         /\ calls[j].frame = search_result.frame_index
         /\ calls[i].frame = video_frames[calls[j].frame + 1]

\* localization was given the second frame
C28_Witness ==
  /\ Called("locate")
  /\ search_result.frame_index = 1
  /\ pc = "Done"

\* C29: localization is called only when intent is find, target_object is
\* non-empty and the search has returned found = true; the planner is called
\* only after localization returned a result with the three required keys.
C29_LocateAndPlanGuards ==
  /\ Called("locate") =>
       /\ FindWithTarget
       /\ search_result # Null
       /\ search_result.found
  /\ \A i \in CallIndices("navigate") :
       /\ \E j \in CallIndices("locate") : j < i
       /\ LocalizationComplete
  /\ (search_result = Null \/ ~search_result.found) =>
       (~Called("locate") /\ ~Called("navigate"))

C29_Witness ==
  /\ Called("navigate")
  /\ vision_backend_url # ""
  /\ pc = "Done"

\* C30: a find with a target and no frames asks for no judgment and ends with
\* action object_not_found and the not-found text naming the target and
\* max_search_duration, not with a need-a-frame text.
C30_FindWithoutFrames ==
  (FindWithTarget /\ Len(video_frames) = 0) =>
    /\ ~Called("judge")
    /\ ~Called("vlm")
    /\ pc \in {"Dispatched", "ResponseSynthesized", "Done"} =>
         /\ action_taken = "object_not_found"
         /\ response_text =
              Str("I've been looking for the " \o target_object.s \o " for "
                    \o IntToStr(max_search_duration)
                    \o " seconds, but I haven't found it yet. Please move your camera around slowly so I can see more of the area.")
         /\ response_text \notin {Str(NeedFrameDescribe), Str(NeedFrameGeneral)}
    /\ result # Null =>
         /\ result.action_taken = "object_not_found"
         /\ result.response_text = response_text

C30_Witness ==
  /\ result # Null
  /\ FindWithTarget
  /\ Len(video_frames) = 0

-----------------------------------------------------------------------------
(* The same request run twice: after a run has finished, it is run again   *)
(* with the other max_search_duration while every collaborator answers as  *)
(* it did in the first run.                                                *)

Finished == pc \in {"Done", "Raised"}

\* what is kept of the finished run
Observation ==
  [pc |-> pc, error |-> error, calls |-> calls, transcript |-> transcript,
   response_text |-> response_text, action_taken |-> action_taken,
   found |-> found, best_frame_idx |-> best_frame_idx,
   search_result |-> search_result, position_data |-> position_data,
   max_search_duration |-> max_search_duration]

\* the second run starts, on the same frames and settings
Rerun ==
  /\ Finished
  /\ earlier = Null
  /\ earlier' = Observation
  /\ \E d \in Durations \ {max_search_duration} : max_search_duration' = d
  /\ pc' = "Init"
  /\ error' = ""
  /\ trace' = << "Init" >>
  /\ calls' = << >>
  /\ transcript' = ""
  /\ intent_data' = Null
  /\ intent' = Null
  /\ target_object' = Null
  /\ enhanced_query' = Null
  /\ response_text' = Str("")
  /\ action_taken' = ""
  /\ additional_data' = << >>
  /\ idx' = 0
  /\ found' = FALSE
  /\ location_description' = Str("")
  /\ best_frame_idx' = -1
  /\ search_result' = Null
  /\ position_data' = Null
  /\ result' = Null
  /\ UNCHANGED << video_frames, vision_backend_url, requests, disk, accesses >>

\* the collaborator answered call i of this run as it answered call i of
\* the earlier run
SameAnswer(i) ==
  CASE calls[i].fn = "classify" ->
         /\ calls[i].content = earlier.calls[i].content
         /\ calls[i].outcome = earlier.calls[i].outcome
    [] calls[i].fn = "judge" -> calls[i].content = earlier.calls[i].content
    [] calls[i].fn = "vlm" ->
         \/ pc = "Raised" /\ Len(calls) = i
         \/ response_text = earlier.response_text
    [] calls[i].fn = "locate" ->
         /\ calls[i].outcome = earlier.calls[i].outcome
         /\ position_data = earlier.position_data
    [] calls[i].fn = "tts" ->
         calls[i].path = nav_audio_path => calls[i].text = earlier.calls[i].text
    [] OTHER -> TRUE

\* the collaborators of a second run answer, and fail, as in the first run
Follows ==
  earlier # Null =>
    /\ \A i \in 1..Len(calls) :
         (i <= Len(earlier.calls) /\ calls[i].fn = earlier.calls[i].fn) => SameAnswer(i)
    /\ transcript \in {"", earlier.transcript}
    /\ (pc = "Raised" /\ error = "APIError") =>
         /\ earlier.pc = "Raised"
         /\ earlier.error = "APIError"
         /\ Len(calls) = Len(earlier.calls)
    /\ (earlier.pc = "Raised" /\ earlier.error = "APIError"
          /\ Len(calls) >= Len(earlier.calls)) =>
         (pc = "Raised" /\ error = "APIError")

Follow(step) == step /\ Follows'

NextDuration ==
  \/ Follow(Transcribe)
  \/ Follow(Classify)
  \/ Follow(Describe)
  \/ Follow(General)
  \/ Follow(FindStart)
  \/ Follow(SearchFrame)
  \/ Follow(SearchReturn)
  \/ Follow(Locate)
  \/ Follow(Navigate)
  \/ Follow(Synthesize)
  \/ Follow(Return)
  \/ Rerun

SpecDuration == Init /\ [][NextDuration]_vars

\* a call without the wording of the spoken response
Unworded(call) ==
  IF call.fn = "tts" /\ call.path = output_audio_path
    THEN [fn |-> "tts", path |-> call.path]
    ELSE call

-----------------------------------------------------------------------------
(* The navigation planner on its own: the runs start where a find has      *)
(* matched the first frame and the localization service has answered with  *)
(* any of the positions below.                                             *)

\* coordinates and yaw of the localization results, whole meters and degrees
CameraCoordinates == {0, 1}
TargetCoordinates == {-2, -1, 0, 1, 2}
Heights == {0, 1}
Yaws == {-360, -180, -135, -90, -45, 0, 45, 90, 135, 180, 270, 360}

\* values of steps_remaining and direction given to the step counter
StepsRemaining == -2..8
Directions == {"forward", "left"}

PlanPayload(cx, cz, tx, ty, tz, yaw) ==
  Obj([target_position |-> Obj([x |-> Num(tx), y |-> Num(ty), z |-> Num(tz)]),
       camera_position |-> Obj([x |-> Num(cx), y |-> Num(0), z |-> Num(cz)]),
       camera_orientation |-> Obj([yaw |-> Num(yaw), pitch |-> Num(0)])])

InitPlan ==
  /\ pc = "Located"
  /\ error = ""
  /\ trace = << "Init", "Transcribed", "IntentClassified", "ActionDispatched" >>
  /\ transcript \in Transcripts
  /\ video_frames = FramePaths(1)
  /\ max_search_duration = 5
  /\ vision_backend_url = "http://vision"
  /\ intent_data = Obj([keywords |-> List(<< >>), intent |-> Str("find"),
                        target_object |-> Str("cup"),
                        enhanced_query |-> Str(transcript)])
  /\ intent = Str("find")
  /\ target_object = Str("cup")
  /\ enhanced_query = Str(transcript)
  /\ response_text = Str("")
  /\ action_taken = "object_found_navigation"
  /\ additional_data = << >>
  /\ idx = 0
  /\ found = TRUE
  /\ location_description = Str("To your right")
  /\ best_frame_idx = 0
  /\ search_result = SearchResult(TRUE, 0, Str("To your right"), 5, "cup")
  /\ \E cx \in CameraCoordinates, cz \in CameraCoordinates,
        tx \in TargetCoordinates, ty \in Heights, tz \in TargetCoordinates,
        yaw \in Yaws :
       position_data = PlanPayload(cx, cz, tx, ty, tz, yaw)
  /\ calls = << [fn |-> "stt"],
                [fn |-> "classify", transcript |-> transcript, outcome |-> "ok",
                 content |-> "{\"intent\": \"find\", \"target_object\": \"cup\"}"],
                [fn |-> "judge", frame |-> 0,
                 content |-> "{\"found\": true, \"description\": \"To your right\"}"],
                [fn |-> "locate", target_object |-> Str("cup"),
                 frame |-> FramePaths(1)[1], network |-> TRUE, outcome |-> "ok"] >>
  /\ result = Null
  /\ earlier = Null
  /\ NoOtherRequest

\* the step counter is asked once the instructions have been returned
Guide ==
  /\ pc = "Done"
  /\ ~Called("guide")
  /\ \E steps_remaining \in StepsRemaining, direction \in Directions :
       calls' = Append(calls,
                  [fn |-> "guide", steps_remaining |-> steps_remaining,
                   direction |-> direction,
                   text |-> create_step_by_step_guidance(target_object.s,
                                                         steps_remaining, direction)])
  /\ UNCHANGED << pc, error, trace, held, intentVars, actionVars, searchVars,
                  position_data, result >>

NextPlan ==
  \/ Navigate
  \/ Synthesize
  \/ Return
  \/ Guide

SpecPlan == InitPlan /\ [][NextPlan]_vars

\* the metrics handed to the instruction model
Prompts == { calls[i].prompt : i \in CallIndices("instruct") }

\* C23: every relative_angle computed is greater than -180 and at most 180.
C23_RelativeAngleHalfOpen ==
  \A p \in Prompts : -180000 < p.relative_angle /\ p.relative_angle <= 180000

C25_StepsRoundedToNearest ==
  \A p \in Prompts : p.steps = (p.distance * 15 + 5000) \div 10000

\* the answers of the step counter
Guidance == { calls[i] : i \in CallIndices("guide") }
KeepGoing(text) == StartsAt(text, "Keep going ", 1)
AlmostThere(text) == StartsAt(text, "Almost there!", 1)
Arrived(text) == StartsAt(text, "You've arrived!", 1)

\* C26 as stated: keep-going iff steps_remaining > 5, almost-there iff
\* 1 <= steps_remaining <= 5, arrival iff steps_remaining = 0.
C26_ArrivalOnlyAtZero ==
  \A g \in Guidance :
    /\ KeepGoing(g.text) <=> g.steps_remaining > 5
    /\ AlmostThere(g.text) <=> (1 <= g.steps_remaining /\ g.steps_remaining <= 5)
    /\ Arrived(g.text) <=> g.steps_remaining = 0

\* C26: the step counter answers with exactly one of the three messages:
\* keep-going iff steps_remaining > 5, almost-there iff 1 <= steps_remaining <= 5,
\* arrival iff steps_remaining <= 0.
C26_StepCounterCases ==
  \A g \in Guidance :
    /\ KeepGoing(g.text) <=> g.steps_remaining > 5
    /\ AlmostThere(g.text) <=> (1 <= g.steps_remaining /\ g.steps_remaining <= 5)
    /\ Arrived(g.text) <=> g.steps_remaining <= 0
    /\ ~(KeepGoing(g.text) /\ AlmostThere(g.text))
    /\ ~(KeepGoing(g.text) /\ Arrived(g.text))
    /\ ~(AlmostThere(g.text) /\ Arrived(g.text))

C26_Witness ==
  \E g \in Guidance : g.steps_remaining < 0 /\ Arrived(g.text)

-----------------------------------------------------------------------------
(* main.py: two requests served at once.  A step of a request is what it   *)
(* does between two calls to the file system or to a collaborator, and the *)
(* steps of the two requests interleave freely.  The contents of files and *)
(* the answers of the collaborators are kept as records that name what     *)
(* they were made from.                                                    *)

Requests == {1, 2}

\* the number of frames a request uploads
UploadedFrames == {0, 1, 2}

\* the bytes a request uploads: part is "audio" or the index of a frame
Upload(r, part) == [req |-> r, part |-> part]

\* the audio text_to_speech writes for a text
Speech(text) == [speech |-> text]

\* the file a freshly opened path holds
EmptyFile == [empty |-> TRUE]

\* Path(dir) / name
FilePath(dir, name) == [parent |-> dir, name |-> name]

\* tempfile.mkdtemp(): a directory that did not exist before; the unused
\* names are taken in order
mkdtemp(d) == "tmp" \o IntToStr(Cardinality(d.dirs))

MakeDir(d, dir) == [d EXCEPT !.dirs = @ \cup {dir}]

WriteFile(d, path, content) ==
  [d EXCEPT !.files = [p \in DOMAIN d.files \cup {path} |->
                         IF p = path THEN content ELSE d.files[p]]]

Opened(r, paths, op) == { [req |-> r, path |-> p, op |-> op] : p \in paths }

\* the single run is not looked at while two requests are served
run ==
  << pc, error, trace, calls, arguments, intentVars, actionVars, searchVars,
     position_data, result, earlier >>

InitPair ==
  /\ pc = "Init"
  /\ error = ""
  /\ trace = << "Init" >>
  /\ calls = << >>
  /\ video_frames = << >>
  /\ max_search_duration = 5
  /\ vision_backend_url = ""
  /\ transcript = ""
  /\ intent_data = Null
  /\ intent = Null
  /\ target_object = Null
  /\ enhanced_query = Null
  /\ response_text = Str("")
  /\ action_taken = ""
  /\ additional_data = << >>
  /\ idx = 0
  /\ found = FALSE
  /\ location_description = Str("")
  /\ best_frame_idx = -1
  /\ search_result = Null
  /\ position_data = Null
  /\ result = Null
  /\ earlier = Null
  /\ \E frames \in [Requests -> UploadedFrames] :
       requests = [r \in Requests |->
                     [pc |-> "Accepted", frames |-> frames[r], audio_path |-> Null,
                      frames_dir |-> "", frame_paths |-> << >>,
                      output_audio_path |-> Null, transcript |-> Null,
                      looked |-> 0, kind |-> "", action_taken |-> "",
                      response_text |-> Null, position_data |-> "",
                      result |-> Null]]
  /\ disk = [dirs |-> {}, files |-> << >>]
  /\ accesses = {}

\* tmp_audio_dir = tempfile.mkdtemp() and open(tmp_audio_path, "wb")
OpenAudio(r) ==
  /\ requests[r].pc = "Accepted"
  /\ \E path \in {FilePath(mkdtemp(disk), "input.wav")} :
       /\ requests' = [requests EXCEPT ![r].pc = "AudioOpen", ![r].audio_path = path]
       /\ disk' = WriteFile(MakeDir(disk, path.parent), path, EmptyFile)
       /\ accesses' = accesses \cup Opened(r, {path}, "write")
  /\ UNCHANGED run

\* f.write(audio_content) and tmp_frames_dir = tempfile.mkdtemp()
WriteAudio(r) ==
  /\ requests[r].pc = "AudioOpen"
  /\ \E dir \in {mkdtemp(disk)} :
       /\ requests' = [requests EXCEPT ![r].pc = "SavingFrames", ![r].frames_dir = dir]
       /\ disk' = MakeDir(WriteFile(disk, requests[r].audio_path, Upload(r, "audio")), dir)
  /\ UNCHANGED << accesses, run >>

\* open(frame_path, "wb") for the next frame
OpenFrame(r) ==
  /\ requests[r].pc = "SavingFrames"
  /\ Len(requests[r].frame_paths) < requests[r].frames
  /\ \E path \in {FilePath(requests[r].frames_dir,
                           "frame_" \o IntToStr(Len(requests[r].frame_paths)) \o ".jpg")} :
       /\ requests' = [requests EXCEPT ![r].pc = "FrameOpen",
                                       ![r].frame_paths = Append(@, path)]
       /\ disk' = WriteFile(disk, path, EmptyFile)
       /\ accesses' = accesses \cup Opened(r, {path}, "write")
  /\ UNCHANGED run

\* f.write(content) for the frame that was opened
WriteFrame(r) ==
  /\ requests[r].pc = "FrameOpen"
  /\ requests' = [requests EXCEPT ![r].pc = "SavingFrames"]
  /\ disk' = WriteFile(disk, requests[r].frame_paths[Len(requests[r].frame_paths)],
                       Upload(r, Len(requests[r].frame_paths) - 1))
  /\ UNCHANGED << accesses, run >>

\* tmp_output_dir = tempfile.mkdtemp() and the call of process_user_request
StartProcessing(r) ==
  /\ requests[r].pc = "SavingFrames"
  /\ Len(requests[r].frame_paths) = requests[r].frames
  /\ \E dir \in {mkdtemp(disk)} :
       /\ requests' = [requests EXCEPT ![r].pc = "Init",
                         ![r].output_audio_path = FilePath(dir, "response.mp3")]
       /\ disk' = MakeDir(disk, dir)
  /\ UNCHANGED << accesses, run >>

\* Step 1: the transcript is made from the audio file of the request
TranscribeFor(r) ==
  /\ requests[r].pc = "Init"
  /\ requests' = [requests EXCEPT ![r].pc = "Transcribed",
                    ![r].transcript = [heard |-> disk.files[requests[r].audio_path]]]
  /\ accesses' = accesses \cup Opened(r, {requests[r].audio_path}, "read")
  /\ UNCHANGED << disk, run >>

\* the answer a request gives after looking at its first n frames
Answer(q, kind, n) ==
  [kind |-> kind, heard |-> q.transcript.heard,
   seen |-> { disk.files[q.frame_paths[i]] : i \in 1..n }]

Looked(r, action, kind, n, next) ==
  /\ requests' = [requests EXCEPT ![r].pc = next, ![r].looked = n,
                    ![r].kind = kind, ![r].action_taken = action,
                    ![r].response_text = Answer(requests[r], kind, n)]
  /\ accesses' = accesses
                   \cup Opened(r, { requests[r].frame_paths[i] : i \in 1..n }, "read")

\* Steps 2 and 3 up to the localization: describe and general look at the
\* first frame if there is one, find looks at the frames up to a match
DispatchFor(r) ==
  /\ requests[r].pc = "Transcribed"
  /\ \/ \E action \in {"scene_description", "general_query"} :
          IF requests[r].frames > 0
            THEN Looked(r, action, "answer", 1, "Dispatched")
            ELSE Looked(r, action, "need_frame", 0, "Dispatched")
     \/ \E n \in 1..requests[r].frames :
          Looked(r, "object_found_navigation", "description", n, "Locating")
     \/ Looked(r, "object_not_found", "not_found", requests[r].frames, "Dispatched")
  /\ UNCHANGED << disk, run >>

\* call_3d_reconstruction_service: the mock positions without a backend,
\* else the matched frame is read and posted
LocateFor(r) ==
  /\ requests[r].pc = "Locating"
  /\ \/ /\ requests' = [requests EXCEPT ![r].pc = "Located",
                                        ![r].position_data = "mock"]
        /\ accesses' = accesses
     \/ \E outcome \in {"complete", "unavailable"} :
          /\ requests' = [requests EXCEPT ![r].pc = "Located",
                                          ![r].position_data = outcome]
          /\ accesses' = accesses
               \cup Opened(r, {requests[r].frame_paths[requests[r].looked]}, "read")
  /\ UNCHANGED << disk, run >>

\* navigate_to_target writes the instructions to the temporary navigation
\* audio; without usable positions the description is kept
NavigateFor(r) ==
  /\ requests[r].pc = "Located"
  /\ IF requests[r].position_data = "unavailable"
       THEN /\ requests' = [requests EXCEPT ![r].pc = "Dispatched"]
            /\ UNCHANGED << disk, accesses >>
       ELSE \E text \in {Answer(requests[r], "instructions", requests[r].looked)},
               path \in {NavigationAudioPath(requests[r].output_audio_path)} :
              /\ requests' = [requests EXCEPT ![r].pc = "Dispatched",
                                ![r].kind = "instructions", ![r].response_text = text]
              /\ disk' = WriteFile(disk, path, Speech(text))
              /\ accesses' = accesses \cup Opened(r, {path}, "write")
  /\ UNCHANGED run

\* Step 4: text_to_speech_gentle(response_text, output_audio_path)
SynthesizeFor(r) ==
  /\ requests[r].pc = "Dispatched"
  /\ requests' = [requests EXCEPT ![r].pc = "ResponseSynthesized"]
  /\ disk' = WriteFile(disk, requests[r].output_audio_path,
                       Speech(requests[r].response_text))
  /\ accesses' = accesses \cup Opened(r, {requests[r].output_audio_path}, "write")
  /\ UNCHANGED run

\* the dictionary is returned and main.py adds the audio read back from
\* output_audio_path
RespondTo(r) ==
  /\ requests[r].pc = "ResponseSynthesized"
  /\ requests' = [requests EXCEPT ![r].pc = "Done",
                    ![r].result = [action_taken |-> requests[r].action_taken,
                                   response_text |-> requests[r].response_text,
                                   audio_output |-> requests[r].output_audio_path,
                                   audio_base64 |->
                                     disk.files[requests[r].output_audio_path]]]
  /\ accesses' = accesses \cup Opened(r, {requests[r].output_audio_path}, "read")
  /\ UNCHANGED << disk, run >>

\* a collaborator raises and the request is answered with an error
RaiseFor(r) ==
  /\ requests[r].pc \in {"Init", "Transcribed", "Located", "Dispatched"}
  /\ requests' = [requests EXCEPT ![r].pc = "Raised"]
  /\ UNCHANGED << disk, accesses, run >>

NextPair ==
  \E r \in Requests :
    \/ OpenAudio(r)
    \/ WriteAudio(r)
    \/ OpenFrame(r)
    \/ WriteFrame(r)
    \/ StartProcessing(r)
    \/ TranscribeFor(r)
    \/ DispatchFor(r)
    \/ LocateFor(r)
    \/ NavigateFor(r)
    \/ SynthesizeFor(r)
    \/ RespondTo(r)
    \/ RaiseFor(r)

SpecPair == InitPair /\ [][NextPair]_vars

\* the result of request r when it is served alone and the collaborators
\* answer as they did
AloneResult(r) ==
  LET text == [kind |-> requests[r].kind, heard |-> Upload(r, "audio"),
               seen |-> { Upload(r, i - 1) : i \in 1..requests[r].looked }]
  IN [action_taken |-> requests[r].action_taken,
      response_text |-> text,
      audio_output |-> requests[r].output_audio_path,
      audio_base64 |-> Speech(text)]

\* C22: of two requests served at once, no path written by one is read or
\* written by the other, and the result of each is the result it has when
\* it is served alone.
C22_NoSharedState ==
  /\ \A a \in accesses, b \in accesses :
       (a.op = "write" /\ a.path = b.path) => a.req = b.req
  /\ \A r \in DOMAIN requests :
       requests[r].result # Null => requests[r].result = AloneResult(r)

\* both requests are in flight, each after writing its navigation audio,
\* and the first has been answered from its own frames
C22_Witness ==
  /\ requests[1].pc = "Done"
  /\ requests[1].kind = "instructions"
  /\ requests[1].looked = 2
  /\ requests[2].pc = "Dispatched"
  /\ requests[2].kind = "instructions"
  /\ requests[2].audio_path.parent = "tmp0"

====
